---------------------------- MODULE Spec2Model ----------------------------
(***************************************************************************)
(* A model of crcmod: the polynomial validator, bit reversal, the per-byte *)
(* step functions, the table builders, the Crc engine (construct, update,  *)
(* new, copy, digest, hexdigest) and the predefined-definitions registry.  *)
(*                                                                         *)
(* Python integers are unbounded, and the CRC widths go up to 64 bits, so  *)
(* an unsigned integer is modelled by the set of positions of its 1 bits   *)
(* (5 = {0, 2}); XOR is symmetric difference, AND is intersection, a shift *)
(* moves the positions.  A signed Python integer is a record               *)
(* [neg, bits]: for neg = FALSE its value is bits, for neg = TRUE it is    *)
(* the two's complement value ~bits (so -1 = ~0 is [neg |-> TRUE,          *)
(* bits |-> {}]).  Bytes and table indexes are plain numbers 0..255.       *)
(***************************************************************************)
EXTENDS Integers, Sequences, FiniteSets, TLC

-----------------------------------------------------------------------------
(* Unbounded integer arithmetic on bit sets *)

Max(S) == CHOOSE m \in S : \A k \in S : k <= m

\* The results are written as filtered enumerations so that a value built by
\* a long chain of operations is a plain set of positions.
Xor(a, b) == {i \in a \cup b : ~(i \in a /\ i \in b)}

And(a, b) == {i \in a : i \in b}

Or(a, b) == {i \in a \cup b : TRUE}

Shl(a, k) == {i + k : i \in a}

Shr(a, k) == {i - k : i \in {j \in a : j >= k}}

\* (1 << n) - 1
LowBits(n) == 0 .. (n - 1)

\* a < b for unsigned a, b: they differ and the highest differing bit is b's
Less(a, b) == a # b /\ Max(Xor(a, b)) \in b

Pow2(i) == 2 ^ i

\* the bit set of a number 0..2^31-1, and the number of a bit set within 0..30
Bits(v) == {i \in 0 .. 30 : (v \div Pow2(i)) % 2 = 1}

RECURSIVE Num(_)
Num(s) == IF s = {} THEN 0 ELSE LET m == Max(s) IN Pow2(m) + Num(s \ {m})

\* a hexadecimal literal, most significant digit first: 0x1D0F = Hex(<<1, 13, 0, 15>>)
Hex(digits) ==
    UNION {Shl(Bits(digits[k]), 4 * (Len(digits) - k)) : k \in 1 .. Len(digits)}

\* signed Python integers
Pos(bits) == [neg |-> FALSE, bits |-> bits]
Inv(bits) == [neg |-> TRUE, bits |-> bits]

\* x & m for a signed x and an unsigned m
PyAnd(x, m) == IF x.neg THEN {i \in m : i \notin x.bits} ELSE And(x.bits, m)

\* PyBetween with a fault: low <= x <= high
PyBetweenInclusive(low, x, high) ==
    /\ ~x.neg
    /\ ~Less(x.bits, low)
    /\ ~Less(high, x.bits)

\* low <= x < high for a signed x and unsigned low, high
PyBetween(low, x, high) ==
    /\ ~x.neg
    /\ ~Less(x.bits, low)
    /\ Less(x.bits, high)

-----------------------------------------------------------------------------
(* crcmod.py: the validator, bit reversal, step functions, table builders *)

ValueError == "ValueError"
TypeError == "TypeError"
KeyError == "KeyError"

\* the outcome of a call: an exception raised, or a value returned
Raise(e) == [raised |-> e]
Return(v) == [value |-> v]
Raised(r) == "raised" \in DOMAIN r

\* the widths _verifyPoly tries, in its order
SupportedWidths == <<8, 16, 24, 32, 64>>

RECURSIVE VerifyLoop(_, _)
VerifyLoop(poly, k) ==
    IF k > Len(SupportedWidths) THEN Raise(ValueError)
    ELSE LET n == SupportedWidths[k]
             low == {n}
             high == Shl(low, 1)
         IN  IF PyBetween(low, poly, high) THEN Return(n) ELSE VerifyLoop(poly, k + 1)

_verifyPoly(poly) == VerifyLoop(poly, 1)

\* One pass of the loop binds x1, y1 to the new values of x and y, so that
\* they are computed before the next pass and not when the result is read.
RECURSIVE BitrevLoop(_, _, _)
BitrevLoop(x, y, i) ==
    IF i = 0 THEN y
    ELSE CHOOSE r \in {BitrevLoop(x1, y1, i - 1) :
                          x1 \in {Shr(x, 1)}, y1 \in {Or(Shl(y, 1), And(x, {0}))}} : TRUE

_bitrev(x, n) == BitrevLoop(x, {}, n)

RECURSIVE BytecrcLoop(_, _, _, _)
BytecrcLoop(crc, poly, mask, i) ==
    IF i = 0 THEN crc
    ELSE BytecrcLoop(IF And(crc, mask) # {} THEN Xor(Shl(crc, 1), poly) ELSE Shl(crc, 1),
                     poly, mask, i - 1)

_bytecrc(crc, poly, n) == And(BytecrcLoop(crc, poly, {n - 1}, 8), LowBits(n))

RECURSIVE BytecrcRLoop(_, _, _)
BytecrcRLoop(crc, poly, i) ==
    IF i = 0 THEN crc
    ELSE BytecrcRLoop(IF And(crc, {0}) # {} THEN Xor(Shr(crc, 1), poly) ELSE Shr(crc, 1),
                      poly, i - 1)

_bytecrc_r(crc, poly, n) == And(BytecrcRLoop(crc, poly, 8), LowBits(n))

\* _mkTable with a fault: the byte is not moved to the top of the register
MkTableUnshifted(poly, n) ==
    LET mask == LowBits(n)
        p == PyAnd(poly, mask)
    IN  [i \in 0 .. 255 |-> _bytecrc(Bits(i), p, n)]

_mkTable(poly, n) ==
    LET mask == LowBits(n)
        p == PyAnd(poly, mask)
    IN  [i \in 0 .. 255 |-> _bytecrc(Shl(Bits(i), n - 8), p, n)]

\* _mkTable_r with a fault: the forward step function on the unreversed polynomial
MkTableRForward(poly, n) ==
    LET mask == LowBits(n)
        p == PyAnd(poly, mask)
    IN  [i \in 0 .. 255 |-> _bytecrc(Shl(Bits(i), n - 8), p, n)]

_mkTable_r(poly, n) ==
    LET mask == LowBits(n)
        p == _bitrev(PyAnd(poly, mask), n)
    IN  [i \in 0 .. 255 |-> _bytecrc_r(Bits(i), p, n)]

-----------------------------------------------------------------------------
(* The low-level CRC functions _crcfun._crc8 .. _crcfun._crc64r.  The module *)
(* that defines them (_crcfunpy / _crcfunext) is imported by crcmod.py but   *)
(* is not among the sources; they are modelled from the specification's      *)
(* block update algorithm (section 4.5).                                     *)

CrcStep(size, b, crc, table) ==
    And(Xor(table[Num(Xor(Bits(b), Shr(crc, size - 8)))], Shl(crc, 8)), LowBits(size))

CrcStepR(b, crc, table) ==
    Xor(table[Num(Xor(Bits(b), And(crc, LowBits(8))))], Shr(crc, 8))

RECURSIVE BlockLoop(_, _, _, _, _)
BlockLoop(fun, data, crc, table, k) ==
    IF k > Len(data) THEN crc
    ELSE BlockLoop(fun, data,
                   IF fun.rev THEN CrcStepR(data[k], crc, table)
                   ELSE CrcStep(fun.size, data[k], crc, table),
                   table, k + 1)

\* _sizeMap[size][1 if rev else 0] (data, crc, table)
_crcfun(fun, data, crc, table) == BlockLoop(fun, data, crc, table, 1)

-----------------------------------------------------------------------------
(* crcmod.py: _mkCrcFun, mkCrcFun and the Crc class *)

\* _mkCrcFun with a fault: xorOut is masked one bit too wide
MkCrcFunWideMask(poly, initCrc, xorOut, rev) ==
    LET v == _verifyPoly(poly)
    IN  IF Raised(v) THEN v
        ELSE LET size == v.value
                 mask == LowBits(size)
                 init == PyAnd(initCrc, mask)
                 xor == PyAnd(xorOut, LowBits(size + 1))
                 tableList == IF rev THEN _mkTable_r(poly, size) ELSE _mkTable(poly, size)
             IN  Return([crcfun |-> [fun |-> [size |-> size, rev |-> rev], crc |-> init],
                         size |-> size, initCrc |-> init, xorOut |-> xor,
                         tableList |-> tableList])

\* The tuple (crcfun, size, initCrc, xorOut, tableList); crcfun is the closure
\* crcfun(data, crc=initCrc, table=_table, fun=_fun), kept as its defaults.
_mkCrcFun(poly, initCrc, xorOut, rev) ==
    LET v == _verifyPoly(poly)
    IN  IF Raised(v) THEN v
        ELSE LET size == v.value
                 mask == LowBits(size)
                 init == PyAnd(initCrc, mask)
                 xor == PyAnd(xorOut, mask)
                 tableList == IF rev THEN _mkTable_r(poly, size) ELSE _mkTable(poly, size)
             IN  Return([crcfun |-> [fun |-> [size |-> size, rev |-> rev], crc |-> init],
                         size |-> size, initCrc |-> init, xorOut |-> xor,
                         tableList |-> tableList])

\* Binding a call's keyword arguments to a function's parameters: a keyword
\* the function does not declare is a TypeError.
Binds(params, kwargs) == kwargs \subseteq params


\* Crc.__init__ with initialize=True, given the tuple x of _mkCrcFun and the
\* heap reference t of its table
CrcInit(x, t, poly, rev) ==
    [_crc |-> [fun |-> x.crcfun.fun, crc |-> x.crcfun.crc, table |-> t],
     digest_size |-> x.size \div 8,
     initCrc |-> x.initCrc,
     xorOut |-> x.xorOut,
     table |-> t,
     crcValue |-> Xor(x.initCrc, x.xorOut),
     reverse |-> rev,
     poly |-> poly]

\* CrcNew with a fault: the current value is kept, not reset
CrcNewKeepsValue(self) ==
    [_crc |-> self._crc,
     digest_size |-> self.digest_size,
     initCrc |-> self.initCrc,
     xorOut |-> self.xorOut,
     table |-> self.table,
     crcValue |-> self.crcValue,
     reverse |-> self.reverse,
     poly |-> self.poly]

\* Crc.new without its optional update
CrcNew(self) ==
    [_crc |-> self._crc,
     digest_size |-> self.digest_size,
     initCrc |-> self.initCrc,
     xorOut |-> self.xorOut,
     table |-> self.table,
     crcValue |-> Xor(self.initCrc, self.xorOut),
     reverse |-> self.reverse,
     poly |-> self.poly]

\* CrcUpdate with a fault: the value goes into the CRC function without xorOut
CrcUpdateNoInnerXor(self, data, heap) ==
    [self EXCEPT !.crcValue =
        Xor(self.xorOut,
            _crcfun(self._crc.fun, data, self.crcValue, heap[self._crc.table]))]

\* CrcUpdate with a fault: the result of the CRC function is stored without xorOut
CrcUpdateNoOuterXor(self, data, heap) ==
    [self EXCEPT !.crcValue =
        _crcfun(self._crc.fun, data, Xor(self.xorOut, self.crcValue),
                heap[self._crc.table])]

\* CrcUpdate with a fault: the new value is stored in initCrc as well
CrcUpdateWritesInitCrc(self, data, heap) ==
    LET v == Xor(self.xorOut,
                 _crcfun(self._crc.fun, data, Xor(self.xorOut, self.crcValue),
                         heap[self._crc.table]))
    IN  [self EXCEPT !.crcValue = v, !.initCrc = v]

\* Crc.update; heap holds the tables the closures refer to
CrcUpdate(self, data, heap) ==
    [self EXCEPT !.crcValue =
        Xor(self.xorOut,
            _crcfun(self._crc.fun, data, Xor(self.xorOut, self.crcValue),
                    heap[self._crc.table]))]

\* CrcCopy with a fault: the current value is not copied
CrcCopyReset(self) == CrcNew(self)

CrcCopy(self) == [CrcNew(self) EXCEPT !.crcValue = self.crcValue]

Reverse(lst) == [k \in 1 .. Len(lst) |-> lst[Len(lst) + 1 - k]]

\* chr(crc & 0xFF): a character of a byte string is its code 0..255
Chr(crc) == Num(And(crc, LowBits(8)))

RECURSIVE DigestLoop(_, _, _)
DigestLoop(n, crc, lst) ==
    IF n > 0 THEN DigestLoop(n - 1, Shr(crc, 8), Append(lst, Chr(crc)))
    ELSE Reverse(lst)

\* CrcDigest with a fault: the list is not reversed
CrcDigestNotReversed(self) ==
    Reverse(DigestLoop(self.digest_size, self.crcValue, <<>>))

CrcDigest(self) == DigestLoop(self.digest_size, self.crcValue, <<>>)

HexDigits ==
    <<"0", "1", "2", "3", "4", "5", "6", "7", "8", "9", "A", "B", "C", "D", "E", "F">>

\* '%02X' % v for v in 0..255: two characters
Fmt02X(v) == <<HexDigits[(v \div 16) + 1], HexDigits[(v % 16) + 1]>>

RECURSIVE HexdigestLoop(_, _, _)
HexdigestLoop(n, crc, lst) ==
    IF n > 0 THEN HexdigestLoop(n - 1, Shr(crc, 8), Append(lst, Fmt02X(Chr(crc))))
    ELSE Reverse(lst)

RECURSIVE Join(_)
Join(lst) == IF lst = <<>> THEN <<>> ELSE Head(lst) \o Join(Tail(lst))

CrcHexdigest(self) == Join(HexdigestLoop(self.digest_size, self.crcValue, <<>>))

\* def mkCrcFun(poly, initCrc=~0L, rev=True): the parameters it declares
mkCrcFunParams == {"poly", "initCrc", "rev"}

\* mkCrcFun called with the keyword arguments kwargs (a record); the function
\* it returns is the closure of _mkCrcFun with its table
mkCrcFun(kwargs) ==
    IF ~Binds(mkCrcFunParams, DOMAIN kwargs) THEN Raise(TypeError)
    ELSE LET x == _mkCrcFun(kwargs.poly,
                            IF "initCrc" \in DOMAIN kwargs THEN kwargs.initCrc ELSE Inv({}),
                            Pos({}),
                            IF "rev" \in DOMAIN kwargs THEN kwargs.rev ELSE TRUE)
         IN  IF Raised(x) THEN x
             ELSE Return([fun |-> x.value.crcfun.fun, crc |-> x.value.crcfun.crc,
                          table |-> x.value.tableList])

-----------------------------------------------------------------------------
(* predefined.py: the table of well-known CRC algorithms and its lookups *)

REVERSE == TRUE
NON_REVERSE == FALSE

\* dict(zip(_crc_table_headings, table_entry)); names are sequences of characters
Def(name, identifier, poly, reverse, init, xor_out, check) ==
    [name |-> name, identifier |-> identifier, poly |-> poly, reverse |-> reverse,
     init |-> init, xor_out |-> xor_out, check |-> check]

_crc_definitions_table ==
    <<
       Def(<<"c", "r", "c", "-", "8">>, <<"C", "r", "c", "8">>,
           Hex(<<1, 0, 7>>), NON_REVERSE,
           Hex(<<0, 0>>), Hex(<<0, 0>>), Hex(<<15, 4>>)),
       Def(<<"c", "r", "c", "-", "8", "-", "d", "a", "r", "c">>, <<"C", "r", "c", "8", "D", "a", "r", "c">>,
           Hex(<<1, 3, 9>>), REVERSE,
           Hex(<<0, 0>>), Hex(<<0, 0>>), Hex(<<1, 5>>)),
       Def(<<"c", "r", "c", "-", "8", "-", "i", "-", "c", "o", "d", "e">>, <<"C", "r", "c", "8", "I", "C", "o", "d", "e">>,
           Hex(<<1, 1, 13>>), NON_REVERSE,
           Hex(<<15, 13>>), Hex(<<0, 0>>), Hex(<<7, 14>>)),
       Def(<<"c", "r", "c", "-", "8", "-", "i", "t", "u">>, <<"C", "r", "c", "8", "I", "t", "u">>,
           Hex(<<1, 0, 7>>), NON_REVERSE,
           Hex(<<5, 5>>), Hex(<<5, 5>>), Hex(<<10, 1>>)),
       Def(<<"c", "r", "c", "-", "1", "6">>, <<"C", "r", "c", "1", "6">>,
           Hex(<<1, 8, 0, 0, 5>>), REVERSE,
           Hex(<<0, 0, 0, 0>>), Hex(<<0, 0, 0, 0>>), Hex(<<11, 11, 3, 13>>)),
       Def(<<"c", "r", "c", "-", "1", "6", "-", "u", "s", "b">>, <<"C", "r", "c", "1", "6", "U", "s", "b">>,
           Hex(<<1, 8, 0, 0, 5>>), REVERSE,
           Hex(<<0, 0, 0, 0>>), Hex(<<15, 15, 15, 15>>), Hex(<<11, 4, 12, 8>>)),
       Def(<<"x", "-", "2", "5">>, <<"C", "r", "c", "X", "2", "5">>,
           Hex(<<1, 1, 0, 2, 1>>), REVERSE,
           Hex(<<0, 0, 0, 0>>), Hex(<<15, 15, 15, 15>>), Hex(<<9, 0, 6, 14>>)),
       Def(<<"x", "m", "o", "d", "e", "m">>, <<"C", "r", "c", "X", "m", "o", "d", "e", "m">>,
           Hex(<<1, 1, 0, 2, 1>>), NON_REVERSE,
           Hex(<<0, 0, 0, 0>>), Hex(<<0, 0, 0, 0>>), Hex(<<3, 1, 12, 3>>)),
       Def(<<"m", "o", "d", "b", "u", "s">>, <<"C", "r", "c", "M", "o", "d", "b", "u", "s">>,
           Hex(<<1, 8, 0, 0, 5>>), REVERSE,
           Hex(<<15, 15, 15, 15>>), Hex(<<0, 0, 0, 0>>), Hex(<<4, 11, 3, 7>>)),
       Def(<<"k", "e", "r", "m", "i", "t">>, <<"C", "r", "c", "K", "e", "r", "m", "i", "t">>,
           Hex(<<1, 1, 0, 2, 1>>), REVERSE,
           Hex(<<0, 0, 0, 0>>), Hex(<<0, 0, 0, 0>>), Hex(<<2, 1, 8, 9>>)),
       Def(<<"c", "r", "c", "-", "c", "c", "i", "t", "t", "-", "f", "a", "l", "s", "e">>, <<"C", "r", "c", "C", "c", "i", "t", "t", "F", "a", "l", "s", "e">>,
           Hex(<<1, 1, 0, 2, 1>>), NON_REVERSE,
           Hex(<<15, 15, 15, 15>>), Hex(<<0, 0, 0, 0>>), Hex(<<2, 9, 11, 1>>)),
       Def(<<"c", "r", "c", "-", "a", "u", "g", "-", "c", "c", "i", "t", "t">>, <<"C", "r", "c", "A", "u", "g", "C", "c", "i", "t", "t">>,
           Hex(<<1, 1, 0, 2, 1>>), NON_REVERSE,
           Hex(<<1, 13, 0, 15>>), Hex(<<0, 0, 0, 0>>), Hex(<<14, 5, 12, 12>>)),
       Def(<<"c", "r", "c", "-", "2", "4">>, <<"C", "r", "c", "2", "4">>,
           Hex(<<1, 8, 6, 4, 12, 15, 11>>), NON_REVERSE,
           Hex(<<11, 7, 0, 4, 12, 14>>), Hex(<<0, 0, 0, 0, 0, 0>>), Hex(<<2, 1, 12, 15, 0, 2>>)),
       Def(<<"c", "r", "c", "-", "3", "2">>, <<"C", "r", "c", "3", "2">>,
           Hex(<<1, 0, 4, 12, 1, 1, 13, 11, 7>>), REVERSE,
           Hex(<<0, 0, 0, 0, 0, 0, 0, 0>>), Hex(<<15, 15, 15, 15, 15, 15, 15, 15>>), Hex(<<12, 11, 15, 4, 3, 9, 2, 6>>)),
       Def(<<"c", "r", "c", "-", "3", "2", "c">>, <<"C", "r", "c", "3", "2", "C">>,
           Hex(<<1, 1, 14, 13, 12, 6, 15, 4, 1>>), REVERSE,
           Hex(<<0, 0, 0, 0, 0, 0, 0, 0>>), Hex(<<15, 15, 15, 15, 15, 15, 15, 15>>), Hex(<<14, 3, 0, 6, 9, 2, 8, 3>>)),
       Def(<<"c", "r", "c", "-", "3", "2", "-", "m", "p", "e", "g">>, <<"C", "r", "c", "3", "2", "M", "p", "e", "g">>,
           Hex(<<1, 0, 4, 12, 1, 1, 13, 11, 7>>), NON_REVERSE,
           Hex(<<15, 15, 15, 15, 15, 15, 15, 15>>), Hex(<<0, 0, 0, 0, 0, 0, 0, 0>>), Hex(<<0, 3, 7, 6, 14, 6, 14, 7>>)),
       Def(<<"p", "o", "s", "i", "x">>, <<"C", "r", "c", "P", "o", "s", "i", "x">>,
           Hex(<<1, 0, 4, 12, 1, 1, 13, 11, 7>>), NON_REVERSE,
           Hex(<<15, 15, 15, 15, 15, 15, 15, 15>>), Hex(<<15, 15, 15, 15, 15, 15, 15, 15>>), Hex(<<7, 6, 5, 14, 7, 6, 8, 0>>)),
       Def(<<"c", "r", "c", "-", "6", "4">>, <<"C", "r", "c", "6", "4">>,
           Hex(<<1, 0, 0, 0, 0, 0, 0, 0, 0, 0, 0, 0, 0, 0, 0, 1, 11>>), REVERSE,
           Hex(<<0, 0, 0, 0, 0, 0, 0, 0, 0, 0, 0, 0, 0, 0, 0, 0>>), Hex(<<0, 0, 0, 0, 0, 0, 0, 0, 0, 0, 0, 0, 0, 0, 0, 0>>), Hex(<<4, 6, 10, 5, 10, 9, 3, 8, 8, 10, 5, 11, 14, 15, 15, 14>>)),
       Def(<<"c", "r", "c", "-", "6", "4", "-", "j", "o", "n", "e", "s">>, <<"C", "r", "c", "6", "4", "J", "o", "n", "e", "s">>,
           Hex(<<1, 10, 13, 9, 3, 13, 2, 3, 5, 9, 4, 12, 9, 3, 5, 10, 9>>), REVERSE,
           Hex(<<15, 15, 15, 15, 15, 15, 15, 15, 15, 15, 15, 15, 15, 15, 15, 15>>), Hex(<<0, 0, 0, 0, 0, 0, 0, 0, 0, 0, 0, 0, 0, 0, 0, 0>>), Hex(<<12, 10, 10, 7, 1, 7, 1, 6, 8, 6, 0, 9, 15, 2, 8, 1>>)),
       Def(<<"c", "r", "c", "-", "3", "-", "r", "o", "h", "c">>, <<"C", "r", "c", "3", "R", "o", "h", "c">>,
           Hex(<<11>>), REVERSE,
           Hex(<<7>>), Hex(<<0>>), Hex(<<6>>)),
       Def(<<"c", "r", "c", "-", "4", "-", "i", "t", "u">>, <<"C", "r", "c", "3", "I", "t", "u">>,
           Hex(<<1, 3>>), REVERSE,
           Hex(<<0, 0>>), Hex(<<0, 0>>), Hex(<<0, 7>>)),
       Def(<<"c", "r", "c", "-", "5", "-", "e", "p", "c">>, <<"C", "r", "c", "5", "E", "p", "c">>,
           Hex(<<2, 9>>), NON_REVERSE,
           Hex(<<0, 9>>), Hex(<<0, 0>>), Hex(<<0, 0>>)),
       Def(<<"c", "r", "c", "-", "5", "-", "i", "t", "u">>, <<"C", "r", "c", "5", "I", "t", "u">>,
           Hex(<<3, 5>>), REVERSE,
           Hex(<<0, 0>>), Hex(<<0, 0>>), Hex(<<0, 7>>)),
       Def(<<"c", "r", "c", "-", "5", "-", "u", "s", "b">>, <<"C", "r", "c", "5", "U", "s", "b">>,
           Hex(<<2, 5>>), REVERSE,
           Hex(<<0, 0>>), Hex(<<1, 15>>), Hex(<<1, 9>>)),
       Def(<<"c", "r", "c", "-", "6", "-", "i", "t", "u">>, <<"C", "r", "c", "5", "I", "t", "u">>,
           Hex(<<4, 3>>), REVERSE,
           Hex(<<0, 0>>), Hex(<<0, 0>>), Hex(<<0, 6>>)),
       Def(<<"c", "r", "c", "-", "7">>, <<"C", "r", "c", "7">>,
           Hex(<<8, 9>>), NON_REVERSE,
           Hex(<<0, 0>>), Hex(<<0, 0>>), Hex(<<7, 5>>)),
       Def(<<"c", "r", "c", "-", "7", "-", "r", "o", "h", "c">>, <<"C", "r", "c", "7", "R", "o", "h", "c">>,
           Hex(<<12, 15>>), REVERSE,
           Hex(<<7, 15>>), Hex(<<0, 0>>), Hex(<<5, 3>>)),
       Def(<<"c", "r", "c", "-", "1", "0">>, <<"C", "r", "c", "1", "0">>,
           Hex(<<6, 3, 3>>), NON_REVERSE,
           Hex(<<0, 0, 0>>), Hex(<<0, 0, 0>>), Hex(<<1, 9, 9>>)),
       Def(<<"c", "r", "c", "-", "1", "1">>, <<"C", "r", "c", "1", "1">>,
           Hex(<<11, 8, 5>>), NON_REVERSE,
           Hex(<<0, 1, 10>>), Hex(<<0, 0, 0>>), Hex(<<5, 10, 3>>)),
       Def(<<"c", "r", "c", "-", "1", "4", "-", "d", "a", "r", "c">>, <<"C", "r", "c", "1", "4", "D", "a", "r", "c">>,
           Hex(<<4, 8, 0, 5>>), REVERSE,
           Hex(<<0, 0, 0, 0>>), Hex(<<0, 0, 0, 0>>), Hex(<<0, 8, 2, 13>>)),
       Def(<<"c", "r", "c", "-", "1", "5">>, <<"C", "r", "c", "1", "5">>,
           Hex(<<12, 5, 9, 9>>), NON_REVERSE,
           Hex(<<0, 0, 0, 0>>), Hex(<<0, 0, 0, 0>>), Hex(<<0, 5, 9, 14>>)),
       Def(<<"c", "r", "c", "-", "4", "0", "-", "g", "s", "m">>, <<"C", "r", "c", "4", "0", "G", "s", "m">>,
           Hex(<<1, 0, 0, 0, 4, 8, 2, 0, 0, 0, 9>>), NON_REVERSE,
           Hex(<<0, 0, 0, 0, 0, 0, 0, 0, 0, 0>>), Hex(<<0, 0, 0, 0, 0, 0, 0, 0, 0, 0>>), Hex(<<2, 11, 14, 9, 11, 0, 3, 9, 11, 9>>))
    >>

Uppers ==
    <<"A", "B", "C", "D", "E", "F", "G", "H", "I", "J", "K", "L", "M",
      "N", "O", "P", "Q", "R", "S", "T", "U", "V", "W", "X", "Y", "Z">>

Lowers ==
    <<"a", "b", "c", "d", "e", "f", "g", "h", "i", "j", "k", "l", "m",
      "n", "o", "p", "q", "r", "s", "t", "u", "v", "w", "x", "y", "z">>

Lower(c) ==
    IF \E k \in 1 .. Len(Uppers) : Uppers[k] = c
    THEN Lowers[CHOOSE k \in 1 .. Len(Uppers) : Uppers[k] = c]
    ELSE c

NotDashOrSpace(c) == c \notin {"-", " "}

_simplify_name(name) ==
    LET lowered == [k \in 1 .. Len(name) |-> Lower(name[k])]
        stripped == SelectSeq(lowered, NotDashOrSpace)
    IN  IF Len(stripped) >= 3 /\ SubSeq(stripped, 1, 3) = <<"c", "r", "c">>
        THEN SubSeq(stripped, 4, Len(stripped))
        ELSE stripped

\* The keys of the two dictionaries the module builds from the table when it
\* is imported, in the order of the table's entries
_crc_definitions_by_name ==
    [k \in 1 .. Len(_crc_definitions_table) |->
        _simplify_name(_crc_definitions_table[k].name)]

_crc_definitions_by_identifier ==
    [k \in 1 .. Len(_crc_definitions_table) |-> _crc_definitions_table[k].identifier]

\* dict.get(key, None) on such a dictionary: a later entry with the same key
\* has replaced an earlier one
DictGet(keys, key) ==
    LET hits == {k \in 1 .. Len(keys) : keys[k] = key}
    IN  IF hits = {} THEN Raise(KeyError)
        ELSE Return(_crc_definitions_table[Max(hits)])

_get_definition_by_name(crc_name) ==
    LET byName == DictGet(_crc_definitions_by_name, _simplify_name(crc_name))
    IN  IF ~Raised(byName) THEN byName
        ELSE DictGet(_crc_definitions_by_identifier, crc_name)

\* the keyword arguments both PredefinedCrc and mkPredefinedCrcFun pass on
DefinitionKwargs(definition) ==
    [poly |-> Pos(definition.poly), initCrc |-> Pos(definition.init),
     rev |-> definition.reverse, xorOut |-> Pos(definition.xor_out)]

mkPredefinedCrcFun(crc_name) ==
    LET definition == _get_definition_by_name(crc_name)
    IN  IF Raised(definition) THEN definition
        ELSE mkCrcFun(DefinitionKwargs(definition.value))

-----------------------------------------------------------------------------
(* The state: the engines created so far, the heap of tables they refer to, *)
(* and the last call with its outcome.                                      *)

VARIABLES
    engines,    \* the Crc instances, in order of creation
    tables,     \* the heap of table lists; an engine holds an index into it
    fed,        \* history: fed[i] is all the data engine i was updated with
    updates,    \* history: the number of updates made so far (by update and new)
    last,       \* the last call: [op, self, arg, result]
    callers     \* the update calls in flight: each caller's position and locals

vars == <<engines, tables, fed, updates, last, callers>>

\* bounds of the model
MaxEngines == 2
MaxUpdates == 2

None == [none |-> TRUE]

\* "123456789"
CheckString == <<49, 50, 51, 52, 53, 54, 55, 56, 57>>

\* the byte strings update and new are called with
CheckData == {<<>>, SubSeq(CheckString, 1, 4), SubSeq(CheckString, 5, 9), CheckString}

Data == {<<>>, <<0, 255>>, SubSeq(CheckString, 1, 4)}

\* the arguments Crc(...) is called with
Polys ==
    {Pos({}), Inv({}), Pos(Hex(<<15, 15>>)), Pos(Hex(<<1, 0, 0>>)),
     Pos(Hex(<<2, 0, 0>>)), Pos(Hex(<<15, 15, 15, 15>>)), Pos(Hex(<<1, 0, 1, 0, 1>>)),
     Pos(Hex(<<2, 0, 0, 0, 0>>)), Pos(Hex(<<1, 8, 6, 4, 12, 15, 11>>)),
     Pos({33}), Pos(LowBits(65)), Pos({65})}

InitCrcs == {Inv({}), Pos({70} \cup Hex(<<11, 7, 0, 4, 12, 14>>))}

XorOuts == {Pos({}), Inv(Hex(<<5>>))}

\* the names the registry is asked for: every registered name, and a few
\* other spellings
Names ==
    {_crc_definitions_table[k].name : k \in 1 .. Len(_crc_definitions_table)}
    \cup {<<"C", "R", "C", "-", "3", "2">>, <<"C", "r", "c", "3", "2">>,
          <<"C", "r", "c", "5", "I", "t", "u">>, <<"c", "r", "c", "-", "9">>}

\* the callers that may be inside update at the same time
Callers == {1, 2}

\* a caller that is not inside update
Idle == [pc |-> "idle", self |-> 0, data |-> <<>>, before |-> {}, crc |-> {}, value |-> {}]

Call(op, self, arg, result) == [op |-> op, self |-> self, arg |-> arg, result |-> result]

Init ==
    /\ engines = <<>>
    /\ tables = <<>>
    /\ fed = <<>>
    /\ updates = 0
    /\ last = Call("none", 0, None, None)
    /\ callers = [c \in Callers |-> Idle]

\* The model follows one call of a constructor or of mkPredefinedCrcFun and,
\* when the call made an engine, that engine and the engines new and copy make
\* from it.  (Engines of different constructor calls share nothing: each call
\* builds its own table.)
Fresh == engines = <<>> /\ last.op = "none"

\* Crc.__init__ with initialize=True on the keyword arguments arg
Construct(op, arg) ==
    LET x == _mkCrcFun(arg.poly, arg.initCrc, arg.xorOut, arg.rev)
    IN  IF Raised(x)
        THEN /\ last' = Call(op, 0, arg, x)
             /\ UNCHANGED <<engines, tables, fed, updates, callers>>
        ELSE /\ tables' = Append(tables, x.value.tableList)
             /\ engines' = Append(engines,
                                  CrcInit(x.value, Len(tables) + 1, arg.poly, arg.rev))
             /\ fed' = Append(fed, <<>>)
             /\ last' = Call(op, 0, arg, Return(Len(engines) + 1))
             /\ UNCHANGED <<updates, callers>>

Crc(poly, initCrc, rev, xorOut) ==
    /\ Fresh
    /\ Construct("Crc",
                 [poly |-> poly, initCrc |-> initCrc, rev |-> rev, xorOut |-> xorOut])

PredefinedCrc(crc_name) ==
    /\ Fresh
    /\ LET definition == _get_definition_by_name(crc_name)
       IN  IF Raised(definition)
           THEN /\ last' = Call("PredefinedCrc", 0, crc_name, definition)
                /\ UNCHANGED <<engines, tables, fed, updates, callers>>
           ELSE Construct("PredefinedCrc", DefinitionKwargs(definition.value))

MkPredefinedCrcFun(crc_name) ==
    /\ Fresh
    /\ last' = Call("mkPredefinedCrcFun", 0, crc_name, mkPredefinedCrcFun(crc_name))
    /\ UNCHANGED <<engines, tables, fed, updates, callers>>

Update(i, data) ==
    /\ updates < MaxUpdates
    /\ engines' = [engines EXCEPT ![i] = CrcUpdate(engines[i], data, tables)]
    /\ fed' = [fed EXCEPT ![i] = @ \o data]
    /\ updates' = updates + 1
    /\ last' = Call("update", i, data, None)
    /\ UNCHANGED <<tables, callers>>

\* self.new(arg): args is <<>> for arg=None and <<data>> for new(data)
New(i, args) ==
    /\ Len(engines) < MaxEngines
    /\ args # <<>> => updates < MaxUpdates
    /\ LET n == CrcNew(engines[i])
       IN  /\ engines' = Append(engines,
                                IF args # <<>> THEN CrcUpdate(n, args[1], tables) ELSE n)
           /\ fed' = Append(fed, IF args # <<>> THEN args[1] ELSE <<>>)
           /\ updates' = IF args # <<>> THEN updates + 1 ELSE updates
           /\ last' = Call("new", i, args, Return(Len(engines) + 1))
    /\ UNCHANGED <<tables, callers>>

Copy(i) ==
    /\ Len(engines) < MaxEngines
    /\ engines' = Append(engines, CrcCopy(engines[i]))
    /\ fed' = Append(fed, fed[i])
    /\ last' = Call("copy", i, None, Return(Len(engines) + 1))
    /\ UNCHANGED <<tables, updates, callers>>

Digest(i) ==
    /\ last' = Call("digest", i, None, Return(CrcDigest(engines[i])))
    /\ UNCHANGED <<engines, tables, fed, updates, callers>>

Hexdigest(i) ==
    /\ last' = Call("hexdigest", i, None, Return(CrcHexdigest(engines[i])))
    /\ UNCHANGED <<engines, tables, fed, updates, callers>>

\* the engine's life: Crc(...) and the methods that make or change engines
Next ==
    \/ \E poly \in Polys, initCrc \in InitCrcs, rev \in BOOLEAN, xorOut \in XorOuts :
          Crc(poly, initCrc, rev, xorOut)
    \/ \E i \in 1 .. Len(engines), data \in Data : Update(i, data)
    \/ \E i \in 1 .. Len(engines), args \in {<<>>} \cup {<<data>> : data \in Data} :
          New(i, args)
    \/ \E i \in 1 .. Len(engines) : Copy(i)

Spec == Init /\ [][Next]_vars

\* the registry: every constructor, mkPredefinedCrcFun, updates with nothing
\* and with the check string, whole or in two parts, and the digests
NextPredefined ==
    \/ \E poly \in Polys, rev \in BOOLEAN : Crc(poly, Inv({}), rev, Pos({}))
    \/ \E crc_name \in Names : PredefinedCrc(crc_name)
    \/ \E crc_name \in Names : MkPredefinedCrcFun(crc_name)
    \/ \E i \in 1 .. Len(engines), data \in CheckData : Update(i, data)
    \/ \E i \in 1 .. Len(engines) : Digest(i)
    \/ \E i \in 1 .. Len(engines) : Hexdigest(i)

SpecPredefined == Init /\ [][NextPredefined]_vars

\* polynomials for the engine's whole interface: one refused, one of width 16
\* and the crc-24 polynomial
FramePolys ==
    {Pos(Hex(<<2, 0, 0>>)), Pos(Hex(<<1, 0, 1, 0, 1>>)),
     Pos(Hex(<<1, 8, 6, 4, 12, 15, 11>>))}

\* every method of an engine: update, new, copy, digest and hexdigest
NextFrame ==
    \/ \E poly \in FramePolys, rev \in BOOLEAN, xorOut \in XorOuts :
            Crc(poly, Inv({}), rev, xorOut)
    \/ \E i \in 1 .. Len(engines), data \in Data : Update(i, data)
    \/ \E i \in 1 .. Len(engines), args \in {<<>>} \cup {<<data>> : data \in Data} :
            New(i, args)
    \/ \E i \in 1 .. Len(engines) : Copy(i)
    \/ \E i \in 1 .. Len(engines) : Digest(i)
    \/ \E i \in 1 .. Len(engines) : Hexdigest(i)

SpecFrame == Init /\ [][NextFrame]_vars

-----------------------------------------------------------------------------
(* Properties *)

\* the width of an engine: the size its CRC function was made for
Width(e) == e._crc.fun.size

\* 2^w <= poly < 2^(w+1): poly is not negative and its highest 1 bit is bit w
HasDegree(poly, w) == ~poly.neg /\ poly.bits # {} /\ Max(poly.bits) = w

WidthSet == {SupportedWidths[k] : k \in 1 .. Len(SupportedWidths)}

Constructed == last.op \in {"Crc", "PredefinedCrc"} /\ last.result # Raise(KeyError)

\* engine e has the parameters of the table entry d
BuiltFrom(e, d) ==
    /\ e.poly = Pos(d.poly)
    /\ e.reverse = d.reverse
    /\ e.initCrc = d.init
    /\ e.xorOut = d.xor_out

Entries == {_crc_definitions_table[k] : k \in 1 .. Len(_crc_definitions_table)}

SupportedEntries == {d \in Entries : \E w \in WidthSet : HasDegree(Pos(d.poly), w)}

\* C1: an engine built from a table entry of a supported width and updated
\* once with "123456789" holds the entry's Check value.
C1_CheckValue ==
    (Len(engines) = 1 /\ updates = 1 /\ fed[1] = CheckString) =>
        \A d \in SupportedEntries :
            BuiltFrom(engines[1], d) => engines[1].crcValue = d.check

\* C2: a constructor call with polynomial poly makes an engine of width w when
\* 2^w <= poly < 2^(w+1) for a w in {8, 16, 24, 32, 64}, and otherwise raises
\* ValueError and leaves no engine and no table.
C2_Validator ==
    Constructed =>
        LET poly == last.arg.poly
        IN  IF \E w \in WidthSet : HasDegree(poly, w)
            THEN /\ ~Raised(last.result)
                 /\ HasDegree(poly, Width(engines[last.result.value]))
                 /\ engines[last.result.value].digest_size * 8
                        = Width(engines[last.result.value])
            ELSE /\ last.result = Raise(ValueError)
                 /\ engines = <<>>
                 /\ tables = <<>>

\* a polynomial in the gap between the widths 8 and 16 was refused
C2_Witness ==
    /\ Constructed
    /\ last.arg.poly = Pos(Hex(<<2, 0, 0>>))
    /\ last.result = Raise(ValueError)
    /\ tables = <<>>

\* C3: whatever the split of the data into updates, an engine holds the value
\* a fresh engine holds after one update with all the data.
C3_Incremental ==
    \A i \in 1 .. Len(engines) :
        engines[i].crcValue = CrcUpdate(CrcNew(engines[i]), fed[i], tables).crcValue

C3_Witness ==
    /\ Len(engines) = 1 /\ updates = 2
    /\ fed[1] = <<0, 255>> \o SubSeq(CheckString, 1, 4)
    /\ engines[1].xorOut # {}
    /\ engines[1].crcValue # CrcUpdate(CrcNew(engines[1]), <<0, 255>>, tables).crcValue

\* the fields fixed at construction
Fixed(e) == <<e._crc, e.digest_size, e.initCrc, e.xorOut, e.table, e.reverse, e.poly>>

\* C4: copy makes an engine with the original's value, parameters and table
\* and leaves the original alone; an update of one engine changes no other.
C4_CopyIsolation ==
    [][/\ last'.op = "copy" =>
            /\ Len(engines') = Len(engines) + 1
            /\ last'.result.value = Len(engines')
            /\ engines'[Len(engines')].crcValue = engines[last'.self].crcValue
            /\ Fixed(engines'[Len(engines')]) = Fixed(engines[last'.self])
            /\ \A j \in 1 .. Len(engines) : engines'[j] = engines[j]
       /\ last'.op = "update" =>
            /\ Len(engines') = Len(engines)
            /\ \A j \in 1 .. Len(engines) : j # last'.self => engines'[j] = engines[j]
      ]_vars

\* the copy of an updated engine was updated, and now differs from the original
C4_Witness ==
    /\ Len(engines) = 2 /\ updates = 2
    /\ fed[1] = <<0, 255>>
    /\ fed[2] = <<0, 255>> \o SubSeq(CheckString, 1, 4)
    /\ last.op = "update" /\ last.self = 2
    /\ engines[1].crcValue # engines[2].crcValue

\* C5: new makes an engine with the original's parameters and table; its value
\* is initCrc XOR xorOut, or with a seed the value of a fresh engine updated
\* with the seed; the original is left alone.
C5_New ==
    [][last'.op = "new" =>
        LET o == engines[last'.self]
            n == engines'[Len(engines')]
        IN  /\ Len(engines') = Len(engines) + 1
            /\ last'.result.value = Len(engines')
            /\ Fixed(n) = Fixed(o)
            /\ n.crcValue =
                  IF last'.arg = <<>> THEN Xor(o.initCrc, o.xorOut)
                  ELSE Xor(o.xorOut,
                           _crcfun(o._crc.fun, last'.arg[1], o.initCrc, tables[o.table]))
            /\ \A j \in 1 .. Len(engines) : engines'[j] = engines[j]
      ]_vars

\* new() on an updated engine: the new engine is back at the initial value
C5_Witness ==
    /\ Len(engines) = 2 /\ last.op = "new" /\ last.arg = <<>>
    /\ fed[1] # <<>>
    /\ engines[2].crcValue = Xor(engines[1].initCrc, engines[1].xorOut)
    /\ engines[2].crcValue # engines[1].crcValue

\* the number a byte string encodes, most significant byte first
BigEndian(bytes) ==
    UNION {Shl(Bits(bytes[k]), 8 * (Len(bytes) - k)) : k \in 1 .. Len(bytes)}

\* the value of a hexadecimal digit; upper case only
HexValue(c) == (CHOOSE k \in 1 .. Len(HexDigits) : HexDigits[k] = c) - 1

IsUpperHex(c) == \E k \in 1 .. Len(HexDigits) : HexDigits[k] = c

\* the bytes a string of hexadecimal digits decodes to
HexDecode(h) ==
    [k \in 1 .. (Len(h) \div 2) |-> 16 * HexValue(h[2 * k - 1]) + HexValue(h[2 * k])]

\* C6: digest() is width/8 bytes, the value big-endian and zero-padded;
\* hexdigest() is twice as many upper-case hex digits, decoding to digest().
C6_Digest ==
    /\ last.op = "digest" =>
          LET e == engines[last.self]
              d == last.result.value
          IN  /\ Len(d) * 8 = Width(e)
              /\ Len(d) \in {1, 2, 3, 4, 8}
              /\ \A k \in 1 .. Len(d) : d[k] \in 0 .. 255
              /\ BigEndian(d) = e.crcValue
    /\ last.op = "hexdigest" =>
          LET e == engines[last.self]
              h == last.result.value
          IN  /\ Len(h) * 4 = Width(e)
              /\ \A k \in 1 .. Len(h) : IsUpperHex(h[k])
              /\ HexDecode(h) = CrcDigest(e)

\* a 24-bit digest with a zero byte on the left
C6_Witness ==
    /\ last.op = "digest"
    /\ Len(last.result.value) = 3
    /\ last.result.value[1] = 0
    /\ last.result.value[3] # 0
    /\ fed[last.self] # <<>>

\* C7: an update with an empty byte string changes no engine.
C7_EmptyUpdate ==
    [][(last'.op = "update" /\ last'.arg = <<>>) => engines' = engines]_vars

\* an empty update of an engine that is past its initial value, xorOut not 0
C7_Witness ==
    /\ last.op = "update" /\ last.arg = <<>>
    /\ fed[last.self] # <<>>
    /\ engines[last.self].xorOut # {}
    /\ engines[last.self].crcValue
          # Xor(engines[last.self].initCrc, engines[last.self].xorOut)

\* the table _mkCrcFun builds for the other direction
OtherTable(e) ==
    IF e.reverse THEN _mkTable(e.poly, Width(e)) ELSE _mkTable_r(e.poly, Width(e))

JustBuilt == Constructed /\ ~Raised(last.result)

\* C8, as claimed: for every valid polynomial of width 16, 24, 32 or 64 the
\* forward table and the reversed table differ.
C8_TablesDifferAlways ==
    JustBuilt =>
        LET e == engines[last.result.value]
        IN  Width(e) \in {16, 24, 32, 64} => tables[e.table] # OtherTable(e)

\* C8, amended: for every polynomial of width 16, 24, 32 or 64 of the
\* predefined definitions table the forward and the reversed table differ.
C8_PredefinedTablesDiffer ==
    JustBuilt =>
        LET e == engines[last.result.value]
        IN  (/\ Width(e) \in {16, 24, 32, 64}
             /\ \E d \in SupportedEntries : e.poly = Pos(d.poly))
            => tables[e.table] # OtherTable(e)

C8_Witness ==
    /\ JustBuilt
    /\ last.op = "PredefinedCrc"
    /\ Width(engines[1]) = 64
    /\ engines[1].reverse
    /\ tables[1][1] # OtherTable(engines[1])[1]

\* C9: mkPredefinedCrcFun with a registered name of a supported width returns
\* the CRC function of the entry's parameters, and raises nothing.
C9_MkPredefinedCrcFun ==
    last.op = "mkPredefinedCrcFun" =>
        \A d \in SupportedEntries :
            d.name = last.arg =>
                /\ ~Raised(last.result)
                /\ last.result.value.fun.rev = d.reverse
                /\ HasDegree(Pos(d.poly), last.result.value.fun.size)
                /\ last.result.value.crc = d.init

\* C10: the stored initCrc and xorOut and the current value of every engine
\* lie in [0, 2^width).
C10_WidthInvariant ==
    \A i \in 1 .. Len(engines) :
        LET e == engines[i]
        IN  /\ e.initCrc \subseteq LowBits(Width(e))
            /\ e.xorOut \subseteq LowBits(Width(e))
            /\ e.crcValue \subseteq LowBits(Width(e))

\* a forward 24-bit engine made with a negative xorOut and an initCrc of more
\* than 24 bits, after an update
C10_Witness ==
    /\ Len(engines) = 2
    /\ Width(engines[1]) = 24 /\ ~engines[1].reverse
    /\ engines[1].xorOut = {i \in LowBits(24) : i \notin Hex(<<5>>)}
    /\ engines[1].initCrc = Hex(<<11, 7, 0, 4, 12, 14>>)
    /\ fed[1] = <<0, 255>> /\ fed[2] = SubSeq(CheckString, 1, 4)
    /\ 23 \in engines[1].crcValue

\* the value update passes to the CRC function: xorOut ^ crcValue
Register(e) == Xor(e.xorOut, e.crcValue)

\* bytes and width-bit crc values the table update is tried on
StepBytes == {0, 1, 49, 128, 255}

StepCrcs(e) ==
    {Register(e), {}, {0}, {Width(e) - 1}, LowBits(Width(e)), e.initCrc}

\* C11: for every engine, width-bit crc and byte b, the forward table update
\* (table[b ^ (crc >> (width-8))] ^ (crc << 8)) masked to width equals
\* _bytecrc(crc ^ (b << (width-8))) with the stripped polynomial, and the
\* reversed table update table[b ^ (crc & 0xFF)] ^ (crc >> 8) equals
\* _bytecrc_r(crc ^ b) with the bit-reversed stripped polynomial.
C11_TableMemoizes ==
    \A i \in 1 .. Len(engines) :
        LET e == engines[i]
            w == Width(e)
            p == PyAnd(e.poly, LowBits(w))
        IN  \A crc \in StepCrcs(e), b \in StepBytes :
                IF e.reverse
                THEN CrcStepR(b, crc, tables[e.table])
                        = _bytecrc_r(Xor(crc, Bits(b)), _bitrev(p, w), w)
                ELSE CrcStep(w, b, crc, tables[e.table])
                        = _bytecrc(Xor(crc, Shl(Bits(b), w - 8)), p, w)

\* a forward 24-bit engine past an update, whose register has its top bit set
\* and meets a table entry that is not zero
C11_Witness ==
    /\ Len(engines) = 1
    /\ Width(engines[1]) = 24
    /\ ~engines[1].reverse
    /\ fed[1] = CheckString
    /\ 23 \in Register(engines[1])
    /\ CrcStep(24, 255, Register(engines[1]), tables[1])
          # And(Shl(Register(engines[1]), 8), LowBits(24))

\* C12: update changes only crcValue of the engine it is called on and leaves
\* its fixed fields and every table alone; digest, hexdigest, new and copy
\* leave the engine they are called on, and every table built so far, as they
\* were; a digest repeated with no update in between returns the same value.
C12_Frame ==
    [][/\ last'.op = "update" =>
            /\ Fixed(engines'[last'.self]) = Fixed(engines[last'.self])
            /\ tables' = tables
       /\ last'.op \in {"digest", "hexdigest"} =>
            /\ engines' = engines
            /\ tables' = tables
       /\ last'.op \in {"new", "copy"} =>
            /\ engines'[last'.self] = engines[last'.self]
            /\ \A t \in 1 .. Len(tables) : tables'[t] = tables[t]
       /\ (last.op = "digest" /\ last'.op \in {"hexdigest", "new", "copy"}) =>
            CrcDigest(engines'[last.self]) = last.result.value
       /\ (last.op = "digest" /\ last'.op = "digest" /\ last'.self = last.self) =>
            last'.result = last.result
      ]_vars

\* a digest of an updated engine, taken after a new(seed) was made from it
C12_Witness ==
    /\ Len(engines) = 2
    /\ last.op = "digest" /\ last.self = 1
    /\ fed[1] = <<0, 255>> /\ fed[2] = SubSeq(CheckString, 1, 4)
    /\ engines[1].crcValue # Xor(engines[1].initCrc, engines[1].xorOut)
    /\ last.result.value = CrcDigest(engines[1])

-----------------------------------------------------------------------------
(* Crc.update called by two callers at once.  The statement                 *)
(*   self.crcValue = self.xorOut ^ self._crc(data, self.xorOut ^ self.crcValue) *)
(* loads self.crcValue, calls the CRC function and stores self.crcValue;    *)
(* another caller may run between any two of the three.                     *)

\* the load: the argument self.xorOut ^ self.crcValue
CrcUpdateLoad(self) == Xor(self.xorOut, self.crcValue)

\* CrcUpdateCall with a fault: the result of the CRC function without xorOut
CrcUpdateCallNoXorOut(self, data, crc, heap) ==
    _crcfun(self._crc.fun, data, crc, heap[self._crc.table])

\* the call: self.xorOut ^ self._crc(data, crc)
CrcUpdateCall(self, data, crc, heap) ==
    Xor(self.xorOut, _crcfun(self._crc.fun, data, crc, heap[self._crc.table]))

\* the store: self.crcValue = value
CrcUpdateStore(self, value) == [self EXCEPT !.crcValue = value]

\* the byte strings of the concurrent updates
RaceData == {<<0, 255>>, SubSeq(CheckString, 1, 4)}

\* no caller is inside update
Quiet == \A c \in Callers : callers[c].pc = "idle"

\* caller c calls engines[i].update(data); callers enter in order, and all
\* of them before the first load
Enter(c, i, data) ==
    /\ callers[c].pc = "idle"
    /\ \A d \in Callers : callers[d].pc \in {"idle", "entered"}
    /\ \A d \in Callers : d < c => callers[d].pc = "entered"
    /\ callers' = [callers EXCEPT ![c] =
                      [pc |-> "entered", self |-> i, data |-> data,
                       before |-> engines[i].crcValue, crc |-> {}, value |-> {}]]
    /\ UNCHANGED <<engines, tables, fed, updates, last>>

Load(c) ==
    /\ callers[c].pc = "entered"
    /\ callers' = [callers EXCEPT ![c].pc = "loaded",
                                  ![c].crc = CrcUpdateLoad(engines[callers[c].self])]
    /\ UNCHANGED <<engines, tables, fed, updates, last>>

Compute(c) ==
    /\ callers[c].pc = "loaded"
    /\ callers' = [callers EXCEPT ![c].pc = "computed",
                                  ![c].value = CrcUpdateCall(engines[callers[c].self],
                                                             callers[c].data,
                                                             callers[c].crc, tables)]
    /\ UNCHANGED <<engines, tables, fed, updates, last>>

Store(c) ==
    /\ callers[c].pc = "computed"
    /\ engines' = [engines EXCEPT ![callers[c].self] =
                      CrcUpdateStore(@, callers[c].value)]
    /\ fed' = [fed EXCEPT ![callers[c].self] = @ \o callers[c].data]
    /\ last' = Call("update", callers[c].self, callers[c].data, None)
    /\ callers' = [callers EXCEPT ![c].pc = "done"]
    /\ UNCHANGED <<tables, updates>>

\* one engine, a clone of it made by new before anyone is inside update, and
\* the callers' updates, interleaved in every way
NextConcurrent ==
    \/ \E poly \in FramePolys, rev \in BOOLEAN, xorOut \in XorOuts :
            Crc(poly, Inv({}), rev, xorOut)
    \/ \E i \in 1 .. Len(engines), data \in RaceData : Quiet /\ New(i, <<data>>)
    \/ \E c \in Callers, i \in 1 .. Len(engines), data \in RaceData : Enter(c, i, data)
    \/ \E c \in Callers : Load(c)
    \/ \E c \in Callers : Compute(c)
    \/ \E c \in Callers : Store(c)

SpecConcurrent == Init /\ [][NextConcurrent]_vars

\* every caller that entered update has returned
AllDone == \A c \in Callers : callers[c].pc \in {"idle", "done"}

\* the callers that updated engine i
UpdatersOf(i) == {c \in Callers : callers[c].pc = "done" /\ callers[c].self = i}

\* engine i as it was when caller c entered
Before(i, c) == [engines[i] EXCEPT !.crcValue = callers[c].before]

\* the value of engine i after caller c's update alone
Alone(i, c) == CrcUpdate(Before(i, c), callers[c].data, tables).crcValue

\* the value of engine i after caller c's update and then caller d's
Serial(i, c, d) ==
    CrcUpdate(CrcUpdate(Before(i, c), callers[c].data, tables),
              callers[d].data, tables).crcValue

\* C13: when two callers have run update on one engine with their loads,
\* calls and stores interleaved, the engine holds one of the two serial
\* results or the result of one update alone (the other is lost), and
\* nothing else; an engine only one caller updated holds the result of that
\* update, whatever another caller did to an engine sharing its table.
C13_LostUpdate ==
    AllDone =>
        \A i \in 1 .. Len(engines) :
            LET u == UpdatersOf(i)
            IN  /\ \A c \in u :
                      u = {c} => engines[i].crcValue = Alone(i, c)
                /\ \A c, d \in u :
                      c # d => engines[i].crcValue
                                  \in {Serial(i, c, d), Serial(i, d, c),
                                       Alone(i, c), Alone(i, d)}

\* both callers updated the same engine, and its value is neither serial
\* result: one update is lost
C13_Witness ==
    /\ AllDone
    /\ UpdatersOf(1) = Callers
    /\ callers[1].data # callers[2].data
    /\ engines[1].crcValue \notin {Serial(1, 1, 2), Serial(1, 2, 1)}
    /\ engines[1].crcValue \in {Alone(1, 1), Alone(1, 2)}

=============================================================================
